---- MODULE Spec2Model ----
(***************************************************************************)
(* Finzo: point-of-sale and inventory tracker.                             *)
(*                                                                         *)
(* The model covers the DataService singleton (in-memory store and the     *)
(* 'contabilidad_data' entry of localStorage), the React state of App      *)
(* (products, sales), the SalesManagement component with pending sales,    *)
(* the ProductManagement component and the getHistoricalPrice function of  *)
(* Reports.                                                                *)
(*                                                                         *)
(* JavaScript objects are shared by reference.  Two facts of the code are  *)
(* kept explicit:                                                          *)
(*   - every copy of a product object ({...product, stock: ...}) keeps the *)
(*     reference to the same priceHistory array, so there is one array per *)
(*     product id: the variable priceHistory;                              *)
(*   - the product objects held by the React state and by DataService are  *)
(*     the same objects unless a handler stopped half-way: shared[p] says  *)
(*     whether products[p] and dataProducts[p] are one object.             *)
(* Sale ids (Date.now() + Math.random()) are never read by the code and    *)
(* are left out of the Sale records.                                       *)
(***************************************************************************)
EXTENDS Integers, Sequences, FiniteSets, TLC

\* ------------------------------------------------------------------ bounds
\* line items in the cart, in the drafts and in the sales log, when one is added
MaxItems == 3
\* drafts created over a run
MaxDrafts == 2
\* price-history entries per product
MaxHistory == 2
\* clock ticks over a run
MaxTime == 1
\* entries of a price history handed to getHistoricalPrice
MaxEntries == 3
\* latest date of such an entry and of the sale looked up
MaxDate == 2
\* handlers suspended at the same time
MaxInflight == 2
\* sales handed to Reports
MaxReportSales == 2
\* latest date of such a sale, in clock ticks
MaxReportDate == 19
\* sales handed to the daily report
MaxGroupSales == 3
\* clock ticks in a calendar day
DayLength == 2
\* weekAgo.setDate(weekAgo.getDate() - 7)
DaysPerWeek == 7

\* the catalog; no handler removes a product
Pids == {1, 2}
\* the quantity field is a required number input with min 1
Quantities == {1, 2}
Prices == {1, 2}
InitStock == 3
\* values typed into a stock field
Stocks == {0, 5}
\* the product whose price, stock and table row are edited under SpecPrice
PricedPids == {1}
\* text typed into the name field of the edited row
NameInputs == {"C "}
\* an id that no product of the catalog has
UnknownPids == {3}
\* values handed to updateProductStock
StockInputs == Stocks \cup {-1}
DraftIds == 1..MaxDrafts
\* null, for editingSaleId and editingProduct
NoId == 0
FailPoints == {"none", "products", "sales"}
\* parseInt('') of a cleared number field: not a number
NaN == -99
\* what JSON.stringify writes for NaN and JSON.parse reads back
Null == -98
\* the handle of the file chosen in a picker
ChosenFile == 1
\* values of the price field of the edited row as parseFloat reads them, the
\* cleared field included
PriceFieldInputs == Prices \cup {NaN}
\* values of the stock field of the edited row, the cleared field included
StockFieldInputs == Stocks \cup {NaN}
\* the save picker: dismissed, a new file named, or a file chosen that exists
\* and holds a store
SavePicks == {"cancel", "file", "existing"}
\* the open picker: dismissed and the save picker that follows dismissed too;
\* dismissed and a file chosen in the save picker; the file chosen before; a
\* file that is not JSON; a file that holds another store
OpenPicks == {"cancel", "new", "same", "garbage", "other"}

\* texts of the quantity field: numbers, the empty field, and a number written
\* with a fraction and an exponent
QuantityTexts == {"1", "2", "", "0", "-1", "0.1e1"}

VARIABLES
    dataProducts,      \* DataService.data.products
    dataSales,         \* DataService.data.sales
    priceHistory,      \* the priceHistory array of each product
    stored,            \* localStorage['contabilidad_data'], parsed
    products,          \* React state of App: products
    sales,             \* React state of App: sales
    shared,            \* products[p] and dataProducts[p] are the same object
    currentSaleItems,  \* SalesManagement: the cart
    totalAmount,       \* SalesManagement: running total of the cart
    saleTitle,         \* SalesManagement: title field
    pendingSales,      \* SalesManagement: drafts (mirrored to localStorage)
    editingSaleId,     \* SalesManagement: id of the draft loaded in the cart
    editingProduct,    \* ProductManagement: product being edited
    now,               \* the clock read by new Date()
    nextPendingId,     \* source of fresh draft ids
    convertedCount,    \* history: times each draft id was turned into sales
    lastOp,            \* history: the last handler that ran and its outcome
    fileHandle,        \* DataService.fileHandle: the file chosen in a picker
    file,              \* the content of that file: <<>> or <<the store it holds>>
    writeDenied,       \* createWritable on the handle throws (permission withdrawn)
    priceQuery,        \* Reports: a product, a sale date and the price looked up
    report,            \* Reports: the period, the clock, the sales and what is shown
    inflight           \* handlers suspended in a file write, with what they captured

vars == <<dataProducts, dataSales, priceHistory, stored, products, sales, shared,
          currentSaleItems, totalAmount, saleTitle, pendingSales, editingSaleId,
          editingProduct, now, nextPendingId, convertedCount, lastOp,
          fileHandle, file, writeDenied, priceQuery, report, inflight>>

salesVars == <<currentSaleItems, totalAmount, saleTitle, pendingSales, editingSaleId>>
storeVars == <<dataProducts, dataSales, priceHistory, stored, products, sales, shared>>
fileVars == <<fileHandle, file, writeDenied>>

\* ------------------------------------------------------------- helpers
RECURSIVE SumQuantity(_, _)
\* items.filter(item => item.productId === p).reduce((sum, item) => sum + item.quantity, 0)
SumQuantity(items, p) ==
    IF items = <<>> THEN 0
    ELSE (IF Head(items).productId = p THEN Head(items).quantity ELSE 0)
         + SumQuantity(Tail(items), p)

RECURSIVE Flatten(_)
\* the items of all drafts, in draft order then item order
Flatten(pend) ==
    IF pend = <<>> THEN <<>> ELSE Head(pend).items \o Flatten(Tail(pend))

HasItem(items, p) == \E i \in 1..Len(items) : items[i].productId = p

\* items.find(item => item.productId === p): the first matching item
FindItem(items, p) ==
    items[CHOOSE i \in 1..Len(items) :
            /\ items[i].productId = p
            /\ \A j \in 1..(i - 1) : items[j].productId # p]

RemoveAt(s, i) == [j \in 1..(Len(s) - 1) |-> IF j < i THEN s[j] ELSE s[j + 1]]

IsPrefix(s, t) == Len(s) <= Len(t) /\ \A i \in 1..Len(s) : s[i] = t[i]

PendingIds(pend) == {pend[i].id : i \in 1..Len(pend)}

\* a + b, a - b and a * b in JavaScript: NaN when either side is NaN
Plus(a, b) == IF a = NaN \/ b = NaN THEN NaN ELSE a + b
Minus(a, b) == IF a = NaN \/ b = NaN THEN NaN ELSE a - b
Times(a, b) == IF a = NaN \/ b = NaN THEN NaN ELSE a * b

\* a number written by JSON.stringify and read by JSON.parse: NaN becomes null
JsonNumber(n) == IF n = NaN THEN Null ELSE n

\* JSON.stringify(this.data): the products with their histories, by value
Snapshot(prods, hist) ==
    [p \in Pids |-> [name |-> prods[p].name, price |-> JsonNumber(prods[p].price),
                     stock |-> JsonNumber(prods[p].stock), priceHistory |-> hist[p]]]

\* a save that writes localStorage only behind a file write that went through
SaveProductsFileFirst(newProducts, hist, dSales, st, throws) ==
    [products |-> newProducts,
     stored |-> IF throws \/ (fileHandle # NoId /\ writeDenied) THEN st
                ELSE [products |-> Snapshot(newProducts, hist), sales |-> dSales]]

\* this.data.products = products; await this.saveToLocalStorage()
SaveProducts(newProducts, hist, dSales, st, throws) ==
    [products |-> newProducts,
     stored |-> IF throws THEN st
                ELSE [products |-> Snapshot(newProducts, hist), sales |-> dSales]]

Reverse(s) == [i \in 1..Len(s) |-> s[Len(s) + 1 - i]]

\* a save that keeps the log newest first
SaveSalesNewestFirst(newSales, hist, dProducts, st, throws) ==
    [sales |-> Reverse(newSales),
     stored |-> IF throws THEN st
                ELSE [products |-> Snapshot(dProducts, hist), sales |-> Reverse(newSales)]]

\* this.data.sales = sales; await this.saveToLocalStorage()
SaveSales(newSales, hist, dProducts, st, throws) ==
    [sales |-> newSales,
     stored |-> IF throws THEN st
                ELSE [products |-> Snapshot(dProducts, hist), sales |-> newSales]]

\* Sale records priced when the sale is recorded, not when the item was added
NewSalesCurrentPrice(items, prods, t) ==
    [i \in 1..Len(items) |->
        [productId |-> items[i].productId,
         productName |-> prods[items[i].productId].name,
         quantity |-> items[i].quantity,
         unitPrice |-> prods[items[i].productId].price,
         total |-> prods[items[i].productId].price * items[i].quantity,
         date |-> t]]

\* items.map(item => ({productId, productName, quantity, unitPrice, total, date}))
NewSales(items, prods, t) ==
    [i \in 1..Len(items) |->
        [productId |-> items[i].productId,
         productName |-> prods[items[i].productId].name,
         quantity |-> items[i].quantity,
         unitPrice |-> items[i].price,
         total |-> items[i].total,
         date |-> t]]

\* if (this.fileHandle) { await this.saveToFile(); }: reached when the save to
\* localStorage before it did not throw; the file then holds the text that
\* localStorage holds, unless createWritable throws: saveToFile logs the error
\* and the file keeps its content
FileAfterSave(st, f, throws) ==
    IF fileHandle = NoId \/ throws \/ writeDenied THEN f ELSE <<st>>

Op(name, ok, arg) == [op |-> name, ok |-> ok, arg |-> arg]
\* the same, with the value the handler was given
OpWith(name, ok, arg, value) == [op |-> name, ok |-> ok, arg |-> arg, value |-> value]

\* no price was looked up yet
NoQuery == [asked |-> FALSE, price |-> 0, history |-> <<>>, at |-> 0, result |-> 0]

\* ------------------------------------------------------------- initial state
InitProducts == [p \in Pids |-> [name |-> IF p = 1 THEN "A" ELSE "B",
                                price |-> 1, stock |-> InitStock]]

InitStore ==
    /\ dataProducts = InitProducts
    /\ dataSales = <<>>
    /\ priceHistory = [p \in Pids |-> <<>>]
    /\ stored = [products |-> Snapshot(InitProducts, [p \in Pids |-> <<>>]), sales |-> <<>>]
    /\ products = InitProducts
    /\ sales = <<>>
    /\ shared = [p \in Pids |-> TRUE]
    /\ currentSaleItems = <<>>
    /\ totalAmount = 0
    /\ saleTitle = ""
    /\ pendingSales = <<>>
    /\ editingSaleId = NoId
    /\ editingProduct = [id |-> NoId]
    /\ now = 0
    /\ nextPendingId = 1
    /\ convertedCount = [d \in DraftIds |-> 0]
    /\ lastOp = Op("init", TRUE, NoId)
    /\ fileHandle = NoId
    /\ file = <<>>
    /\ writeDenied = FALSE
    /\ inflight = <<>>

\* the report was not computed yet
NoReport == [asked |-> FALSE, period |-> "daily", now |-> 0, sales |-> <<>>,
             filtered |-> <<>>, groups |-> <<>>, total |-> 0]

Init == InitStore /\ priceQuery = NoQuery /\ report = NoReport

\* `return` before anything was done: the handler ends normally and no state of
\* the component, of App or of DataService is assigned
ReturnEarly(name, arg) ==
    /\ lastOp' = Op(name, TRUE, arg)
    /\ UNCHANGED <<storeVars, salesVars, editingProduct, now, nextPendingId,
                   convertedCount, fileVars, priceQuery, report, inflight>>

\* ------------------------------------------------------------- cart
\* an add that pushes onto the array the cart shares with the draft it was
\* loaded from
handleAddItemInPlace(productId, saleQuantity) ==
    /\ Len(currentSaleItems) + Len(Flatten(pendingSales)) + Len(sales) < MaxItems
    /\ productId \in Pids
    /\ LET product == products[productId]
           newItem == [productId |-> productId, quantity |-> saleQuantity,
                       price |-> product.price,
                       total |-> Times(product.price, saleQuantity)]
       IN /\ currentSaleItems' = Append(currentSaleItems, newItem)
          /\ totalAmount' = Plus(totalAmount, newItem.total)
          /\ pendingSales' = [i \in 1..Len(pendingSales) |->
                 IF pendingSales[i].id = editingSaleId
                 THEN [pendingSales[i] EXCEPT !.items = Append(@, newItem)]
                 ELSE pendingSales[i]]
    /\ lastOp' = Op("addItem", TRUE, productId)
    /\ UNCHANGED <<fileVars, priceQuery, report, inflight>>
    /\ UNCHANGED <<storeVars, saleTitle, editingSaleId, editingProduct,
                   now, nextPendingId, convertedCount>>

\* setCurrentSaleItems([...currentSaleItems, newItem]): a new array
handleAddItem(productId, saleQuantity) ==
    /\ Len(currentSaleItems) + Len(Flatten(pendingSales)) + Len(sales) < MaxItems
    /\ productId \in Pids
    /\ LET product == products[productId]
           newItem == [productId |-> productId, quantity |-> saleQuantity,
                       price |-> product.price,
                       total |-> Times(product.price, saleQuantity)]
       IN /\ currentSaleItems' = Append(currentSaleItems, newItem)
          /\ totalAmount' = Plus(totalAmount, newItem.total)
    /\ lastOp' = Op("addItem", TRUE, productId)
    /\ UNCHANGED <<fileVars, priceQuery, report, inflight>>
    /\ UNCHANGED <<storeVars, saleTitle, pendingSales, editingSaleId, editingProduct,
                   now, nextPendingId, convertedCount>>

\* the number a field of type number holds (valueAsNumber): the whole text is
\* read as a floating-point number
ValueAsNumber(text) ==
    CASE text = "1" -> 1
      [] text = "2" -> 2
      [] text = "0" -> 0
      [] text = "-1" -> -1
      [] text = "0.1e1" -> 1
      [] OTHER -> NaN

\* parseInt(text): the leading integer of the text, read up to the first
\* character that is not a digit
ParseInt(text) ==
    CASE text = "1" -> 1
      [] text = "2" -> 2
      [] text = "0" -> 0
      [] text = "-1" -> -1
      [] text = "0.1e1" -> 0
      [] OTHER -> NaN

\* <input type="number" required min="1">: the constraint validation that the
\* browser runs before it dispatches the submit event of the form
QuantityFieldValid(text) == text # "" /\ ValueAsNumber(text) >= 1

\* the "Agregar" button: <form onSubmit={handleAddItem}>.  With an invalid
\* field the browser shows its message and the handler is not called; with a
\* valid one the handler reads the field with parseInt.
submitAddItem(productId, text) ==
    IF QuantityFieldValid(text)
    THEN handleAddItem(productId, ParseInt(text))
    ELSE /\ lastOp' = Op("addItemBlocked", FALSE, productId)
         /\ UNCHANGED <<storeVars, salesVars, editingProduct, now, nextPendingId,
                        convertedCount, fileVars, priceQuery, report, inflight>>

handleRemoveItem(index) ==
    /\ index \in 1..Len(currentSaleItems)
    /\ LET removedItem == currentSaleItems[index]
       IN /\ currentSaleItems' = RemoveAt(currentSaleItems, index)
          /\ totalAmount' = Minus(totalAmount, removedItem.total)
    /\ lastOp' = Op("removeItem", TRUE, index)
    /\ UNCHANGED <<fileVars, priceQuery, report, inflight>>
    /\ UNCHANGED <<storeVars, saleTitle, pendingSales, editingSaleId, editingProduct,
                   now, nextPendingId, convertedCount>>

\* ------------------------------------------------------------- drafts
\* an update that keeps the draft's old lastUpdated
UpdatePendingStale(pend, id, title, items, total, t) ==
    [i \in 1..Len(pend) |->
        IF pend[i].id = id
        THEN [pend[i] EXCEPT !.title = title, !.items = items, !.total = total]
        ELSE pend[i]]

\* pendingSales.map(sale => sale.id === editingSaleId ? {...sale, title, items, total, lastUpdated} : sale)
UpdatePending(pend, id, title, items, total, t) ==
    [i \in 1..Len(pend) |->
        IF pend[i].id = id
        THEN [pend[i] EXCEPT !.title = title, !.items = items, !.total = total,
                             !.lastUpdated = t]
        ELSE pend[i]]

\* pendingSales.filter(sale => sale.id !== id)
RECURSIVE WithoutPending(_, _)
WithoutPending(pend, id) ==
    IF pend = <<>> THEN <<>>
    ELSE IF Head(pend).id = id THEN WithoutPending(Tail(pend), id)
         ELSE <<Head(pend)>> \o WithoutPending(Tail(pend), id)

\* pendingSales.find(sale => sale.id === id)
FindPending(pend, id) ==
    pend[CHOOSE i \in 1..Len(pend) :
            /\ pend[i].id = id
            /\ \A j \in 1..(i - 1) : pend[j].id # id]

handleSaveAsPendingBody ==
    /\ IF editingSaleId # NoId
       THEN /\ pendingSales' = UpdatePending(pendingSales, editingSaleId, saleTitle,
                                             currentSaleItems, totalAmount, now)
            /\ UNCHANGED nextPendingId
       ELSE /\ nextPendingId <= MaxDrafts
            /\ pendingSales' = Append(pendingSales,
                   [id |-> nextPendingId, title |-> saleTitle, items |-> currentSaleItems,
                    total |-> totalAmount, createdAt |-> now, lastUpdated |-> now])
            /\ nextPendingId' = nextPendingId + 1
    /\ editingSaleId' = NoId
    /\ currentSaleItems' = <<>>
    /\ totalAmount' = 0
    /\ saleTitle' = ""
    /\ lastOp' = Op("saveAsPending", TRUE, editingSaleId)
    /\ UNCHANGED <<fileVars, priceQuery, report, inflight>>
    /\ UNCHANGED <<storeVars, editingProduct, now, convertedCount>>

\* a guard that lets an empty cart through
NeverEmpty(items) == FALSE

\* if (currentSaleItems.length === 0) return;
\* if (pendingSales.length === 0) return;
IsEmpty(items) == Len(items) = 0

handleSaveAsPending ==
    IF IsEmpty(currentSaleItems)
    THEN ReturnEarly("saveAsPending", editingSaleId)
    ELSE handleSaveAsPendingBody

handleEditPendingSale(saleId) ==
    /\ saleId \in PendingIds(pendingSales)
    /\ LET saleToEdit == FindPending(pendingSales, saleId)
       IN /\ currentSaleItems' = saleToEdit.items
          /\ totalAmount' = saleToEdit.total
          /\ saleTitle' = saleToEdit.title
    /\ editingSaleId' = saleId
    /\ lastOp' = Op("editPending", TRUE, saleId)
    /\ UNCHANGED <<fileVars, priceQuery, report, inflight>>
    /\ UNCHANGED <<storeVars, pendingSales, editingProduct, now, nextPendingId,
                   convertedCount>>

handleDeletePendingSale(saleId) ==
    /\ saleId \in PendingIds(pendingSales)
    /\ pendingSales' = WithoutPending(pendingSales, saleId)
    /\ lastOp' = Op("deletePending", TRUE, saleId)
    /\ UNCHANGED <<fileVars, priceQuery, report, inflight>>
    /\ UNCHANGED <<storeVars, currentSaleItems, totalAmount, saleTitle, editingSaleId,
                   editingProduct, now, nextPendingId, convertedCount>>

\* the inline onClick of the "Cancelar Edicion" button
cancelEdit ==
    /\ editingSaleId # NoId
    /\ editingSaleId' = NoId
    /\ currentSaleItems' = <<>>
    /\ totalAmount' = 0
    /\ saleTitle' = ""
    /\ lastOp' = Op("cancelEdit", TRUE, editingSaleId)
    /\ UNCHANGED <<fileVars, priceQuery, report, inflight>>
    /\ UNCHANGED <<storeVars, pendingSales, editingProduct, now, nextPendingId,
                   convertedCount>>

\* ------------------------------------------------------------- commits
\* products.map(product => { const saleItem = items.find(...); ... stock - saleItem.quantity })
StockAfterCart(prods, items) ==
    [p \in Pids |->
        IF HasItem(items, p)
        THEN [prods[p] EXCEPT !.stock = prods[p].stock - FindItem(items, p).quantity]
        ELSE prods[p]]

\* products.map(product => { const saleItems = items.filter(...); ... stock - totalQuantity })
StockAfterDraft(prods, items) ==
    [p \in Pids |->
        IF HasItem(items, p)
        THEN [prods[p] EXCEPT !.stock = prods[p].stock - SumQuantity(items, p)]
        ELSE prods[p]]

\* a batch that decrements by the first matching item only, as the cart does
StockAfterAllFirstItem(prods, pend) == StockAfterCart(prods, Flatten(pend))

\* productQuantities[item.productId] += item.quantity over all drafts, then
\* products.map(product => quantity > 0 ? {...product, stock: stock - quantity} : product)
StockAfterAll(prods, pend) ==
    [p \in Pids |->
        LET quantity == SumQuantity(Flatten(pend), p)
        IN IF quantity > 0
           THEN [prods[p] EXCEPT !.stock = prods[p].stock - quantity]
           ELSE prods[p]]

\* await dataService.saveProducts(updatedProducts);
\* await dataService.saveSales([...sales, ...newSales]);
\* setProducts(updatedProducts); setSales([...sales, ...newSales]);
\* A save that throws ends the handler in its catch block, after the assignment
\* to this.data that precedes it.  updatedProducts holds a new object for every
\* product sold and the object of the React state for every other product.
SaveEverything(updatedProducts, allSales, fail) ==
    LET r1 == SaveProducts(updatedProducts, priceHistory, dataSales, stored,
                           fail = "products")
        r2 == SaveSales(allSales, priceHistory, r1.products, r1.stored, fail = "sales")
    IN /\ dataProducts' = r1.products
       /\ shared' = [p \in Pids |-> fail = "none" \/ updatedProducts[p] = products[p]]
       /\ dataSales' = IF fail = "products" THEN dataSales ELSE r2.sales
       /\ stored' = IF fail = "products" THEN r1.stored ELSE r2.stored
       /\ products' = IF fail = "none" THEN updatedProducts ELSE products
       /\ sales' = IF fail = "none" THEN allSales ELSE sales
       /\ file' = LET f1 == FileAfterSave(r1.stored, file, fail = "products")
                  IN IF fail = "products" THEN f1
                     ELSE FileAfterSave(r2.stored, f1, fail = "sales")
       /\ UNCHANGED priceHistory

handleSaveTransactionBody(fail) ==
    /\ LET newSales == NewSales(currentSaleItems, products, now)
           updatedProducts == StockAfterCart(products, currentSaleItems)
       IN SaveEverything(updatedProducts, sales \o newSales, fail)
    /\ IF fail = "none"
       THEN /\ pendingSales' = IF editingSaleId # NoId
                               THEN WithoutPending(pendingSales, editingSaleId)
                               ELSE pendingSales
            /\ currentSaleItems' = <<>>
            /\ totalAmount' = 0
            /\ saleTitle' = ""
            /\ editingSaleId' = NoId
            /\ convertedCount' = IF editingSaleId # NoId
                                 THEN [convertedCount EXCEPT ![editingSaleId] = @ + 1]
                                 ELSE convertedCount
       ELSE UNCHANGED <<salesVars, convertedCount>>
    /\ lastOp' = Op("commit", fail = "none", editingSaleId)
    /\ UNCHANGED <<fileHandle, writeDenied, priceQuery, report, inflight>>
    /\ UNCHANGED <<editingProduct, now, nextPendingId>>

handleSaveTransaction(fail) ==
    IF IsEmpty(currentSaleItems)
    THEN ReturnEarly("commit", editingSaleId)
    ELSE handleSaveTransactionBody(fail)

handleCompletePendingSale(saleId, fail) ==
    /\ saleId \in PendingIds(pendingSales)
    /\ LET saleToComplete == FindPending(pendingSales, saleId)
           newSales == NewSales(saleToComplete.items, products, now)
           updatedProducts == StockAfterDraft(products, saleToComplete.items)
       IN SaveEverything(updatedProducts, sales \o newSales, fail)
    /\ IF fail = "none"
       THEN /\ pendingSales' = WithoutPending(pendingSales, saleId)
            /\ convertedCount' = [convertedCount EXCEPT ![saleId] = @ + 1]
       ELSE UNCHANGED <<pendingSales, convertedCount>>
    /\ lastOp' = Op("completePending", fail = "none", saleId)
    /\ UNCHANGED <<fileHandle, writeDenied, priceQuery, report, inflight>>
    /\ UNCHANGED <<currentSaleItems, totalAmount, saleTitle, editingSaleId,
                   editingProduct, now, nextPendingId>>

handleCompleteAllPendingSalesBody(fail) ==
    /\ LET allNewSales == NewSales(Flatten(pendingSales), products, now)
           updatedProducts == StockAfterAll(products, pendingSales)
       IN SaveEverything(updatedProducts, sales \o allNewSales, fail)
    /\ IF fail = "none"
       THEN /\ pendingSales' = <<>>
            /\ convertedCount' = [d \in DraftIds |->
                                    IF d \in PendingIds(pendingSales)
                                    THEN convertedCount[d] + 1
                                    ELSE convertedCount[d]]
       ELSE UNCHANGED <<pendingSales, convertedCount>>
    /\ lastOp' = Op("completeAll", fail = "none", Len(pendingSales))
    /\ UNCHANGED <<fileHandle, writeDenied, priceQuery, report, inflight>>
    /\ UNCHANGED <<currentSaleItems, totalAmount, saleTitle, editingSaleId,
                   editingProduct, now, nextPendingId>>

handleCompleteAllPendingSales(fail) ==
    IF IsEmpty(pendingSales)
    THEN ReturnEarly("completeAll", Len(pendingSales))
    ELSE handleCompleteAllPendingSalesBody(fail)

\* ------------------------------------------------------------- suspended commits
\* With a file handle set, saveProducts and saveSales await saveToFile, whose
\* createWritable / write / close are real I/O: the handler is suspended and the
\* browser dispatches further clicks.  A handler that starts then runs with the
\* products, sales and pendingSales of the last render, as the suspended one.
\*
\* The handler up to its first suspension: newSales and updatedProducts are
\* computed, saveProducts assigns this.data.products and writes localStorage,
\* and saveToFile is awaited.  kind is "commit" (the cart) or "completePending"
\* (the draft saleId).
beginSale(kind, saleId) ==
    /\ fileHandle # NoId
    /\ Len(inflight) < MaxInflight
    /\ IF kind = "commit" THEN currentSaleItems # <<>>
                          ELSE saleId \in PendingIds(pendingSales)
    /\ LET items == IF kind = "commit" THEN currentSaleItems
                    ELSE FindPending(pendingSales, saleId).items
           updatedProducts == IF kind = "commit" THEN StockAfterCart(products, items)
                              ELSE StockAfterDraft(products, items)
           r == SaveProducts(updatedProducts, priceHistory, dataSales, stored, FALSE)
       IN /\ dataProducts' = r.products
          /\ stored' = r.stored
          /\ shared' = [p \in Pids |-> updatedProducts[p] = products[p]]
          /\ inflight' = Append(inflight,
                 [kind |-> kind, pc |-> "saveProducts",
                  updatedProducts |-> updatedProducts,
                  allSales |-> sales \o NewSales(items, products, now),
                  pendingSales |-> pendingSales,
                  saleId |-> IF kind = "commit" THEN editingSaleId ELSE saleId])
    /\ lastOp' = Op("suspended", TRUE, saleId)
    /\ UNCHANGED <<dataSales, priceHistory, products, sales, salesVars, editingProduct,
                   now, nextPendingId, convertedCount, fileVars, priceQuery, report>>

\* the file write of saveProducts ends and the handler goes on to saveSales,
\* which assigns this.data.sales, writes localStorage and awaits saveToFile
resumeInSaveProducts(i) ==
    /\ i \in 1..Len(inflight)
    /\ inflight[i].pc = "saveProducts"
    /\ LET r == SaveSales(inflight[i].allSales, priceHistory, dataProducts, stored, FALSE)
       IN /\ file' = FileAfterSave(stored, file, FALSE)
          /\ dataSales' = r.sales
          /\ stored' = r.stored
    /\ inflight' = [inflight EXCEPT ![i].pc = "saveSales"]
    /\ lastOp' = Op("suspended", TRUE, inflight[i].saleId)
    /\ UNCHANGED <<dataProducts, priceHistory, products, sales, shared, salesVars,
                   editingProduct, now, nextPendingId, convertedCount, fileHandle,
                   writeDenied, priceQuery, report>>

\* the file write of saveSales ends and the handler runs to its end:
\* setProducts(updatedProducts); setSales([...sales, ...newSales]);
\* setPendingSales(pendingSales.filter(...)), and for the cart the form is reset
resumeInSaveSales(i) ==
    /\ i \in 1..Len(inflight)
    /\ inflight[i].pc = "saveSales"
    /\ LET op == inflight[i]
       IN /\ file' = FileAfterSave(stored, file, FALSE)
          /\ products' = op.updatedProducts
          /\ sales' = op.allSales
          /\ shared' = [p \in Pids |-> op.updatedProducts[p] = dataProducts[p]]
          /\ pendingSales' = IF op.saleId # NoId
                              THEN WithoutPending(op.pendingSales, op.saleId)
                              ELSE pendingSales
          /\ convertedCount' = IF op.saleId # NoId
                                THEN [convertedCount EXCEPT ![op.saleId] = @ + 1]
                                ELSE convertedCount
          /\ IF op.kind = "commit"
             THEN /\ currentSaleItems' = <<>>
                  /\ totalAmount' = 0
                  /\ saleTitle' = ""
                  /\ editingSaleId' = NoId
             ELSE UNCHANGED <<currentSaleItems, totalAmount, saleTitle, editingSaleId>>
          /\ lastOp' = Op(op.kind, TRUE, op.saleId)
    /\ inflight' = RemoveAt(inflight, i)
    /\ UNCHANGED <<dataProducts, dataSales, priceHistory, stored, editingProduct, now,
                   nextPendingId, fileHandle, writeDenied, priceQuery, report>>

\* ------------------------------------------------------------- products
\* an update that pushes the new price instead of the superseded one
updateProductPriceNewInHistory(productId, newPrice) ==
    LET newData == [dataProducts EXCEPT ![productId].price = newPrice]
        newHist == [priceHistory EXCEPT
                      ![productId] = Append(@, [price |-> newPrice, date |-> now])]
    IN [products |-> newData,
        ui |-> [p \in Pids |-> IF shared[p] THEN newData[p] ELSE products[p]],
        history |-> newHist,
        stored |-> SaveProducts(newData, newHist, dataSales, stored, FALSE).stored]

\* DataService.updateProductPrice: the product object is changed in place and
\* the old price is pushed onto its history, whatever the new price is; nothing
\* is done, and nothing is reported, when no product has the id
updateProductPrice(productId, newPrice) ==
    IF productId \notin Pids
    THEN [products |-> dataProducts, ui |-> products, history |-> priceHistory,
          stored |-> stored]
    ELSE
    LET oldPrice == dataProducts[productId].price
        newData == [dataProducts EXCEPT ![productId].price = newPrice]
        newHist == [priceHistory EXCEPT
                      ![productId] = Append(@, [price |-> oldPrice, date |-> now])]
    IN [products |-> newData,
        ui |-> [p \in Pids |-> IF shared[p] THEN newData[p] ELSE products[p]],
        history |-> newHist,
        stored |-> SaveProducts(newData, newHist, dataSales, stored, FALSE).stored]

\* DataService.updateProductStock: the product object is changed in place;
\* nothing is done, and nothing is reported, when no product has the id
updateProductStock(productId, newStock) ==
    IF productId \notin Pids
    THEN [products |-> dataProducts, stored |-> stored]
    ELSE
    LET newData == [dataProducts EXCEPT ![productId].stock = newStock]
    IN [products |-> newData,
        stored |-> SaveProducts(newData, priceHistory, dataSales, stored, FALSE).stored]

handleUpdatePrice(productId, newPrice) ==
    /\ productId \in Pids => Len(priceHistory[productId]) < MaxHistory
    /\ LET r == updateProductPrice(productId, newPrice)
       IN /\ dataProducts' = r.products
          /\ priceHistory' = r.history
          /\ stored' = r.stored
          /\ file' = FileAfterSave(r.stored, file, productId \notin Pids)
          /\ products' = r.products
    /\ shared' = [p \in Pids |-> TRUE]
    /\ lastOp' = Op("updatePrice", TRUE, productId)
    /\ UNCHANGED <<fileHandle, writeDenied, priceQuery, report, inflight>>
    /\ UNCHANGED <<dataSales, sales, salesVars, editingProduct, now, nextPendingId,
                   convertedCount>>

handleUpdateStock(productId, newStock) ==
    /\ LET r == updateProductStock(productId, newStock)
       IN /\ dataProducts' = r.products
          /\ stored' = r.stored
          /\ file' = FileAfterSave(r.stored, file, productId \notin Pids)
          /\ products' = r.products
    /\ shared' = [p \in Pids |-> TRUE]
    /\ lastOp' = OpWith("updateStock", TRUE, productId, newStock)
    /\ UNCHANGED <<fileHandle, writeDenied, priceQuery, report, inflight>>
    /\ UNCHANGED <<dataSales, sales, priceHistory, salesVars, editingProduct, now,
                   nextPendingId, convertedCount>>

\* setEditingProduct({...product, price: product.price.toString()}); the text of
\* the price field is kept as the number parseFloat reads back from it
handleEditProduct(productId) ==
    /\ productId \in Pids
    /\ editingProduct' = [id |-> productId, name |-> products[productId].name,
                          price |-> products[productId].price,
                          stock |-> products[productId].stock]
    /\ lastOp' = Op("editProduct", TRUE, productId)
    /\ UNCHANGED <<fileVars, priceQuery, report, inflight>>
    /\ UNCHANGED <<storeVars, salesVars, now, nextPendingId, convertedCount>>

\* the price field of the row being edited
handlePriceChange(value) ==
    /\ editingProduct.id # NoId
    /\ value # editingProduct.price
    /\ editingProduct' = [editingProduct EXCEPT !.price = value]
    /\ lastOp' = Op("priceChange", TRUE, editingProduct.id)
    /\ UNCHANGED <<fileVars, priceQuery, report, inflight>>
    /\ UNCHANGED <<storeVars, salesVars, now, nextPendingId, convertedCount>>

\* the name field of the row being edited
handleNameChange(value) ==
    /\ editingProduct.id # NoId
    /\ value # editingProduct.name
    /\ editingProduct' = [editingProduct EXCEPT !.name = value]
    /\ lastOp' = Op("nameChange", TRUE, editingProduct.id)
    /\ UNCHANGED <<fileVars, priceQuery, report, inflight>>
    /\ UNCHANGED <<storeVars, salesVars, now, nextPendingId, convertedCount>>

\* editingProduct.name.trim()
Trim(name) == IF name = "C " THEN "C" ELSE name

\* the stock field of the row being edited
handleStockChange(value) ==
    /\ editingProduct.id # NoId
    /\ value # editingProduct.stock
    /\ editingProduct' = [editingProduct EXCEPT !.stock = value]
    /\ lastOp' = Op("stockChange", TRUE, editingProduct.id)
    /\ UNCHANGED <<fileVars, priceQuery, report, inflight>>
    /\ UNCHANGED <<storeVars, salesVars, now, nextPendingId, convertedCount>>

handleSaveEdit ==
    /\ editingProduct.id # NoId
    /\ LET id == editingProduct.id
           originalProduct == products[id]
           priceChanged == \/ originalProduct.price # editingProduct.price
                           \/ editingProduct.price = NaN
           r == updateProductPrice(id, editingProduct.price)
           afterPrice == IF priceChanged THEN r.ui ELSE products
           history == IF priceChanged THEN r.history ELSE priceHistory
           updatedProducts ==
               [p \in Pids |->
                   IF p = id
                   THEN [name |-> Trim(editingProduct.name), price |-> editingProduct.price,
                         stock |-> editingProduct.stock]
                   ELSE afterPrice[p]]
       IN /\ priceChanged => Len(priceHistory[id]) < MaxHistory
          /\ priceHistory' = history
          /\ dataProducts' = updatedProducts
          /\ stored' = SaveProducts(updatedProducts, history, dataSales, stored, FALSE).stored
          /\ file' = FileAfterSave(
                        SaveProducts(updatedProducts, history, dataSales, stored, FALSE).stored,
                        file, FALSE)
          /\ products' = updatedProducts
          /\ lastOp' = Op("saveEdit", TRUE, id)
          /\ UNCHANGED <<fileHandle, writeDenied, priceQuery, report, inflight>>
    /\ shared' = [p \in Pids |-> TRUE]
    /\ editingProduct' = [id |-> NoId]
    /\ UNCHANGED <<dataSales, sales, salesVars, now, nextPendingId, convertedCount>>

\* handleSaveEdit of src/src/components/ProductManagement.tsx, the other copy
\* of the component in the repository: a changed price goes through
\* updateProductPrice and the list is read back with getProducts(), and only
\* with the price unchanged is the edited row put into the list and saved
handleSaveEditPriceOnly ==
    /\ editingProduct.id # NoId
    /\ LET id == editingProduct.id
           originalProduct == products[id]
           priceChanged == \/ originalProduct.price # editingProduct.price
                           \/ editingProduct.price = NaN
           r == updateProductPrice(id, editingProduct.price)
           updatedProducts ==
               [products EXCEPT ![id] = [name |-> editingProduct.name,
                                         price |-> editingProduct.price,
                                         stock |-> editingProduct.stock]]
           saved == SaveProducts(updatedProducts, priceHistory, dataSales, stored, FALSE)
       IN IF priceChanged
          THEN /\ Len(priceHistory[id]) < MaxHistory
               /\ priceHistory' = r.history
               /\ dataProducts' = r.products
               /\ stored' = r.stored
               /\ file' = FileAfterSave(r.stored, file, FALSE)
               /\ products' = r.products
          ELSE /\ priceHistory' = priceHistory
               /\ dataProducts' = saved.products
               /\ stored' = saved.stored
               /\ file' = FileAfterSave(saved.stored, file, FALSE)
               /\ products' = updatedProducts
    /\ lastOp' = Op("saveEdit", TRUE, editingProduct.id)
    /\ shared' = [p \in Pids |-> TRUE]
    /\ editingProduct' = [id |-> NoId]
    /\ UNCHANGED <<fileHandle, writeDenied, priceQuery, report, inflight>>
    /\ UNCHANGED <<dataSales, sales, salesVars, now, nextPendingId, convertedCount>>

\* time passes between two handlers
Tick ==
    /\ now < MaxTime
    /\ now' = now + 1
    /\ lastOp' = Op("tick", TRUE, NoId)
    /\ UNCHANGED <<fileVars, priceQuery, report, inflight>>
    /\ UNCHANGED <<storeVars, salesVars, editingProduct, nextPendingId, convertedCount>>

\* ------------------------------------------------------------- files
\* JSON.stringify(this.data), as saveToFile and saveToLocalStorage write it
CurrentJson == [products |-> Snapshot(dataProducts, priceHistory), sales |-> dataSales]

\* a store saved right after installation
OtherStore == [products |-> Snapshot(InitProducts, [p \in Pids |-> <<>>]), sales |-> <<>>]

\* DataService.saveToFile with a file handle: the write replaces the content of
\* the file; when createWritable, write or close throws, the error is logged and
\* the file keeps its content
SaveToFile(f, json, writeFails) == IF writeFails THEN f ELSE <<json>>

\* the outcome of exportData or importData as its caller sees it
IoOp(name, ok, pick, failure) ==
    [op |-> name, ok |-> ok, arg |-> NoId, pick |-> pick, failure |-> failure]

\* a save picker that hands out an existing file with its content
ShowSaveFilePickerKeeps(content) == content

\* window.showSaveFilePicker: the file is created, or emptied when it exists,
\* before the handle is handed out
ShowSaveFilePicker(content) == <<>>

\* App.handleExportData: dataService.exportData().  selectFile(true) reads the
\* file the save picker hands out: a text that parses replaces this.data and
\* is saved to localStorage; on an empty file JSON.parse throws and selectFile
\* writes the current data.  exportData then writes this.data once more.  The
\* React state is not reloaded.  Every error ends in the catch block of
\* exportData.
handleExportData(pick, writeFails) ==
    /\ LET content == ShowSaveFilePicker(IF pick = "existing" THEN <<OtherStore>>
                                         ELSE <<>>)
           parsed == content[1]
       IN IF pick = "cancel"
          THEN /\ lastOp' = IoOp("exportData", TRUE, pick, "cancelled")
               /\ UNCHANGED <<fileVars, stored, dataProducts, dataSales, priceHistory,
                              shared>>
          ELSE IF content # <<>>
          THEN /\ fileHandle' = ChosenFile
               /\ writeDenied' = FALSE
               /\ dataProducts' = [p \in Pids |->
                                     [name |-> parsed.products[p].name,
                                      price |-> parsed.products[p].price,
                                      stock |-> parsed.products[p].stock]]
               /\ priceHistory' = [p \in Pids |-> parsed.products[p].priceHistory]
               /\ dataSales' = parsed.sales
               /\ shared' = [p \in Pids |-> FALSE]
               /\ stored' = parsed
               /\ file' = SaveToFile(content, parsed, writeFails)
               /\ lastOp' = IoOp("exportData", TRUE, pick,
                                 IF writeFails THEN "writeFailed" ELSE "none")
          ELSE /\ fileHandle' = ChosenFile
               /\ writeDenied' = FALSE
               /\ file' = SaveToFile(<<>>, CurrentJson, writeFails)
               /\ stored' = CurrentJson
               /\ lastOp' = IoOp("exportData", TRUE, pick,
                                 IF writeFails THEN "writeFailed" ELSE "none")
               /\ UNCHANGED <<dataProducts, dataSales, priceHistory, shared>>
    /\ UNCHANGED <<products, sales, salesVars, editingProduct, now, nextPendingId,
                   convertedCount, priceQuery, report, inflight>>

\* App.handleImportData: dataService.importData(), then getProducts and getSales
\* into the React state.  A file whose text parses replaces this.data and is
\* saved to localStorage; for any other file selectFile writes the current data
\* into it.  Every error ends in the catch block of importData.
handleImportData(pick, writeFails) ==
    /\ pick = "same" => fileHandle # NoId
    /\ LET content == IF pick = "same" THEN file
                      ELSE IF pick = "other" THEN <<OtherStore>>
                      ELSE <<>>
           parsed == content[1]
       IN IF pick = "cancel"
          THEN /\ lastOp' = IoOp("importData", TRUE, pick, "cancelled")
               /\ UNCHANGED <<fileVars, stored, dataProducts, dataSales, priceHistory>>
          ELSE IF content # <<>>
          THEN /\ fileHandle' = ChosenFile
               /\ writeDenied' = FALSE
               /\ file' = content
               /\ dataProducts' = [p \in Pids |->
                                     [name |-> parsed.products[p].name,
                                      price |-> parsed.products[p].price,
                                      stock |-> parsed.products[p].stock]]
               /\ priceHistory' = [p \in Pids |-> parsed.products[p].priceHistory]
               /\ dataSales' = parsed.sales
               /\ stored' = parsed
               /\ lastOp' = IoOp("importData", TRUE, pick, "none")
          ELSE /\ fileHandle' = ChosenFile
               /\ writeDenied' = FALSE
               /\ file' = SaveToFile(<<>>, CurrentJson, writeFails)
               /\ stored' = CurrentJson
               /\ lastOp' = IoOp("importData", TRUE, pick,
                                 IF pick = "new"
                                 THEN (IF writeFails THEN "writeFailed" ELSE "none")
                                 ELSE "unparsable")
               /\ UNCHANGED <<dataProducts, dataSales, priceHistory>>
    /\ products' = dataProducts'
    /\ sales' = dataSales'
    /\ shared' = [p \in Pids |-> TRUE]
    /\ UNCHANGED <<salesVars, editingProduct, now, nextPendingId, convertedCount,
                   priceQuery, report, inflight>>

\* the permission to write the chosen file is withdrawn, or the file is moved
\* away: from now on createWritable throws; the handle stays set
denyWrite ==
    /\ fileHandle # NoId
    /\ ~writeDenied
    /\ writeDenied' = TRUE
    /\ lastOp' = Op("denyWrite", TRUE, NoId)
    /\ UNCHANGED <<storeVars, salesVars, editingProduct, now, nextPendingId,
                   convertedCount, fileHandle, file, priceQuery, report, inflight>>

\* ------------------------------------------------------------- reports
Front(s) == SubSeq(s, 1, Len(s) - 1)

\* place e behind every entry of s that is not older than e
InsertByDateDesc(e, s) ==
    LET k == Cardinality({i \in 1..Len(s) : s[i].date >= e.date})
    IN SubSeq(s, 1, k) \o <<e>> \o SubSeq(s, k + 1, Len(s))

\* an ordering step left out: the history is scanned as it is stored
SortByDateDescAsStored(h) == h

RECURSIVE SortByDateDesc(_)
\* [...priceHistory].sort((a, b) => new Date(b.date) - new Date(a.date)); the sort is stable
SortByDateDesc(h) ==
    IF h = <<>> THEN <<>>
    ELSE InsertByDateDesc(h[Len(h)], SortByDateDesc(Front(h)))

\* Reports.getHistoricalPrice(product, saleDate)
getHistoricalPrice(price, history, saleDateTime) ==
    IF Len(history) = 0 THEN price
    ELSE LET sortedHistory == SortByDateDesc(history)
             hits == {i \in 1..Len(sortedHistory) : sortedHistory[i].date <= saleDateTime}
         IN IF hits # {}
            THEN sortedHistory[CHOOSE i \in hits : \A j \in hits : i <= j].price
            ELSE sortedHistory[Len(sortedHistory)].price

\* a product as Reports receives it: its price and its history, the entries in
\* any order, and the date of one of its sales
HistoryEntries == [price : Prices, date : 0..MaxDate]
Histories == UNION {[1..n -> HistoryEntries] : n \in 0..MaxEntries}
PriceQueries == [asked : {FALSE}, price : Prices, history : Histories,
                 at : 0..MaxDate, result : {0}]

\* const historicalPrice = getHistoricalPrice(product, sale.date)
lookupHistoricalPrice ==
    /\ ~priceQuery.asked
    /\ priceQuery.price \in Prices
    /\ priceQuery' = [priceQuery EXCEPT
                        !.asked = TRUE,
                        !.result = getHistoricalPrice(priceQuery.price, priceQuery.history,
                                                      priceQuery.at)]
    /\ UNCHANGED <<storeVars, salesVars, editingProduct, now, nextPendingId,
                   convertedCount, lastOp, fileVars, report, inflight>>

\* new Date(now.getFullYear(), now.getMonth(), now.getDate()): the first instant
\* of the calendar day of t
StartOfDay(t) == t - (t % DayLength)

\* const weekAgo = new Date(today); weekAgo.setDate(weekAgo.getDate() - 7)
WeekAgo(t) == StartOfDay(t) - DaysPerWeek * DayLength

\* a window that leaves out its first instant
After(saleDate, bound) == saleDate > bound

\* saleDate >= today, saleDate >= weekAgo: the instants are compared
OnOrAfter(saleDate, bound) == saleDate >= bound

\* the switch on selectedPeriod inside sales.filter
InPeriod(sale, period, t) ==
    CASE period = "daily" -> OnOrAfter(sale.date, StartOfDay(t))
      [] period = "weekly" -> OnOrAfter(sale.date, WeekAgo(t))
      [] period = "general" -> TRUE

RECURSIVE getFilteredSales(_, _, _)
\* Reports.getFilteredSales: sales.filter(sale => ...), in the order of the log
getFilteredSales(ss, period, t) ==
    IF ss = <<>> THEN <<>>
    ELSE (IF InPeriod(Head(ss), period, t) THEN <<Head(ss)>> ELSE <<>>)
         \o getFilteredSales(Tail(ss), period, t)

Periods == {"daily", "weekly", "general"}
\* the clock when the report is shown: the first and the last tick of a day
ReportNows == {8 * DayLength, 8 * DayLength + 1}

\* a sale of one item of product A made at date d
WindowSale(d) == [productName |-> "A", quantity |-> 1, unitPrice |-> 1, total |-> 1,
                  title |-> "", date |-> d]

\* sales logs with any dates, before, inside and after the windows
WindowLogs == UNION {[1..n -> {WindowSale(d) : d \in 0..MaxReportDate}] :
                        n \in 0..MaxReportSales}

WindowReports ==
    {[asked |-> FALSE, period |-> per, now |-> t, sales |-> ss, filtered |-> <<>>,
      groups |-> <<>>, total |-> 0] : per \in Periods, t \in ReportNows, ss \in WindowLogs}

\* const filteredSales = getFilteredSales()
showFilteredSales ==
    /\ ~report.asked
    /\ report' = [report EXCEPT
                     !.asked = TRUE,
                     !.filtered = getFilteredSales(report.sales, report.period, report.now)]
    /\ UNCHANGED <<storeVars, salesVars, editingProduct, now, nextPendingId,
                   convertedCount, lastOp, fileVars, priceQuery, inflight>>

\* x || 0: 0 for every falsy x (undefined, null, 0, NaN)
OrZero(x) == IF x = NaN \/ x = Null THEN 0 ELSE x

\* typeof x === 'number': true of NaN, false of null
IsNumber(x) == x # Null

\* sale.productName || 'Unknown Product'
ProductKey(sale) == IF sale.productName = "" THEN "Unknown Product" ELSE sale.productName

\* the callback of filteredSales.forEach in the daily branch; groups holds the
\* values of productGroups in the order the keys were created
AddToGroup(groups, sale) ==
    LET productKey == ProductKey(sale)
        created == IF \E i \in 1..Len(groups) : groups[i].name = productKey
                   THEN groups
                   ELSE Append(groups, [name |-> productKey, quantity |-> 0,
                                        unitPrice |-> OrZero(sale.unitPrice),
                                        total |-> 0, titles |-> <<>>])
    IN [i \in 1..Len(created) |->
           IF created[i].name = productKey
           THEN [created[i] EXCEPT
                    !.quantity = Plus(@, OrZero(sale.quantity)),
                    !.total = Plus(@, OrZero(sale.total)),
                    !.titles = IF sale.title # ""
                                  /\ \A j \in 1..Len(@) : @[j] # sale.title
                               THEN Append(@, sale.title) ELSE @]
           ELSE created[i]]

RECURSIVE GroupSales(_, _)
GroupSales(groups, ss) ==
    IF ss = <<>> THEN groups ELSE GroupSales(AddToGroup(groups, Head(ss)), Tail(ss))

\* the place of a name in the order of localeCompare
NameRank(name) ==
    CASE name = "A" -> 1
      [] name = "B" -> 2
      [] name = "C" -> 3
      [] OTHER -> 4

\* Object.values(productGroups).sort((a, b) => a.name.localeCompare(b.name));
\* no two groups have the same name
SortByName(groups) ==
    [k \in 1..Len(groups) |->
        groups[CHOOSE i \in 1..Len(groups) :
                  Cardinality({j \in 1..Len(groups) :
                      NameRank(groups[j].name) < NameRank(groups[i].name)}) = k - 1]]

\* Reports.getGroupedProducts, selectedPeriod === 'daily'
getGroupedProducts(filteredSales) == SortByName(GroupSales(<<>>, filteredSales))

RECURSIVE SumFrom(_, _)
\* filteredSales.reduce((total, sale) => ..., total)
SumFrom(total, ss) ==
    IF ss = <<>> THEN total
    ELSE SumFrom(IF IsNumber(Head(ss).total) THEN Plus(total, Head(ss).total) ELSE total,
                 Tail(ss))

\* Reports.calculateTotalSales
calculateTotalSales(filteredSales) == SumFrom(0, filteredSales)

\* sales of today as SalesManagement records them: the unit price is the price
\* of the product when the item was added, NaN after an edit that saved an empty
\* price field; Reports also reads the optional title
GroupTitles == {"", "t", "u"}
GroupPrices == Prices \cup {NaN}
TodaySales ==
    {[productName |-> n, quantity |-> q, unitPrice |-> v,
      total |-> IF v = NaN THEN NaN ELSE v * q, title |-> ti, date |-> 8 * DayLength] :
        n \in {"A", "B"}, q \in Quantities, v \in GroupPrices, ti \in GroupTitles}

DailyReports ==
    {[asked |-> FALSE, period |-> "daily", now |-> 8 * DayLength, sales |-> ss,
      filtered |-> <<>>, groups |-> <<>>, total |-> 0] :
        ss \in UNION {[1..n -> TodaySales] : n \in 0..MaxGroupSales}}

\* const groupedData = getGroupedProducts() and calculateTotalSales() of the
\* daily view
showDailyReport ==
    /\ ~report.asked
    /\ report.period = "daily"
    /\ LET filteredSales == getFilteredSales(report.sales, report.period, report.now)
       IN report' = [report EXCEPT
                        !.asked = TRUE,
                        !.filtered = filteredSales,
                        !.groups = getGroupedProducts(filteredSales),
                        !.total = calculateTotalSales(filteredSales)]
    /\ UNCHANGED <<storeVars, salesVars, editingProduct, now, nextPendingId,
                   convertedCount, lastOp, fileVars, priceQuery, inflight>>

\* ------------------------------------------------------------- specifications
CartNext ==
    \/ \E p \in Pids, q \in Quantities : handleAddItem(p, q)
    \/ \E i \in 1..MaxItems : handleRemoveItem(i)
    \/ handleSaveAsPending
    \/ \E d \in DraftIds : handleEditPendingSale(d)
    \/ \E d \in DraftIds : handleDeletePendingSale(d)
    \/ cancelEdit

\* Sales and drafts; every save reaches localStorage.
Next ==
    \/ CartNext
    \/ handleSaveTransaction("none")
    \/ \E d \in DraftIds : handleCompletePendingSale(d, "none")
    \/ handleCompleteAllPendingSales("none")

Spec == Init /\ [][Next]_vars

\* Drafts and their completion in one batch; localStorage.setItem may throw
\* (storage quota).
NextFail ==
    \/ \E p \in Pids, q \in Quantities : handleAddItem(p, q)
    \/ handleSaveAsPending
    \/ \E f \in FailPoints : handleCompleteAllPendingSales(f)

SpecFail == Init /\ [][NextFail]_vars

\* Price and stock changes and edits of one product, and the sale of one item
\* of either product.
NextPrice ==
    \/ \E p \in PricedPids, v \in Prices : handleUpdatePrice(p, v)
    \/ \E p \in PricedPids, v \in Stocks : handleUpdateStock(p, v)
    \/ \E p \in PricedPids : handleEditProduct(p)
    \/ \E v \in Prices : handlePriceChange(v)
    \/ \E v \in Stocks : handleStockChange(v)
    \/ handleSaveEdit
    \/ Tick
    \/ sales = <<>> /\ currentSaleItems = <<>> /\ \E p \in Pids : handleAddItem(p, 1)
    \/ handleSaveTransaction("none")

SpecPrice == Init /\ [][NextPrice]_vars

\* Drafts over time: created, edited, saved again and deleted, and the sale of
\* the cart.
NextDrafts ==
    \/ \E p \in PricedPids, q \in Quantities : handleAddItem(p, q)
    \/ handleSaveAsPending
    \/ \E d \in DraftIds : handleEditPendingSale(d)
    \/ \E d \in DraftIds : handleDeletePendingSale(d)
    \/ Tick
    \/ handleSaveTransaction("none")

SpecDrafts == Init /\ [][NextDrafts]_vars

\* Price updates of a product between the moment an item of it is added and the
\* moment the cart or the draft that holds it becomes sales.
NextAddTime ==
    \/ \E p \in PricedPids, q \in Quantities : handleAddItem(p, q)
    \/ \E p \in PricedPids, v \in Prices : handleUpdatePrice(p, v)
    \/ handleSaveAsPending
    \/ handleSaveTransaction("none")
    \/ \E d \in DraftIds : handleCompletePendingSale(d, "none")
    \/ handleCompleteAllPendingSales("none")

SpecAddTime == Init /\ [][NextAddTime]_vars

\* The cart filled and emptied again, and the three handlers that return at
\* once on an empty cart or an empty list of drafts.
NextEmpty ==
    \/ \E p \in PricedPids, q \in Quantities : handleAddItem(p, q)
    \/ \E i \in 1..MaxItems : handleRemoveItem(i)
    \/ \E d \in DraftIds : handleEditPendingSale(d)
    \/ handleSaveAsPending
    \/ handleSaveTransaction("none")
    \/ handleCompleteAllPendingSales("none")

SpecEmpty == Init /\ [][NextEmpty]_vars

\* Sales of one product by every path and, after a sale, maintenance of the
\* product.  The products tab replaces the sales tab, so the cart is empty while
\* a product is maintained; the price and stock buttons are used when no row is
\* being edited and no draft is pending.
ProductsTab == sales # <<>> /\ currentSaleItems = <<>>

DirectUpdate == ProductsTab /\ editingProduct.id = NoId /\ pendingSales = <<>>

NextSalesLog ==
    \/ \E p \in PricedPids : handleAddItem(p, 1)
    \/ handleSaveAsPending
    \/ handleSaveTransaction("none")
    \/ \E d \in DraftIds : handleCompletePendingSale(d, "none")
    \/ handleCompleteAllPendingSales("none")
    \/ ProductsTab /\ \E p \in PricedPids : handleEditProduct(p)
    \/ \E v \in NameInputs : handleNameChange(v)
    \/ handleSaveEdit
    \/ DirectUpdate /\ \E p \in PricedPids, v \in Prices : handleUpdatePrice(p, v)
    \/ DirectUpdate /\ \E p \in PricedPids, v \in Stocks : handleUpdateStock(p, v)

SpecSalesLog == Init /\ [][NextSalesLog]_vars

\* Export and import of the store, after edits of the stock and price of one
\* product and the sale of the other.
NextFiles ==
    \/ \E pick \in SavePicks, w \in BOOLEAN : handleExportData(pick, w)
    \/ \E pick \in OpenPicks, w \in BOOLEAN : handleImportData(pick, w)
    \/ \E p \in PricedPids : handleEditProduct(p)
    \/ \E v \in StockFieldInputs : handleStockChange(v)
    \/ handleSaveEdit
    \/ \E p \in PricedPids, v \in Prices : handleUpdatePrice(p, v)
    \/ sales = <<>> /\ currentSaleItems = <<>>
          /\ \E p \in Pids \ PricedPids : handleAddItem(p, 1)
    \/ handleSaveTransaction("none")

SpecFiles == Init /\ [][NextFiles]_vars

\* Routine saves with a file chosen by an export before, and the file no longer
\* writable afterwards.
NextFileLoss ==
    \/ fileHandle = NoId /\ \E w \in BOOLEAN : handleExportData("file", w)
    \/ denyWrite
    \/ \E p \in PricedPids : handleAddItem(p, 1)
    \/ handleSaveTransaction("none")
    \/ currentSaleItems = <<>> /\ \E p \in PricedPids, v \in Prices : handleUpdatePrice(p, v)
    \/ currentSaleItems = <<>> /\ \E p \in PricedPids, v \in Stocks : handleUpdateStock(p, v)

SpecFileLoss == Init /\ [][NextFileLoss]_vars

\* The cart and the drafts of one product: items added and removed, drafts
\* saved, loaded, saved again or left, and the cart sold.  Before the first item
\* is added the price of the product is edited on the products tab, the price
\* field cleared or not.
NextTotals ==
    \/ editingProduct.id = NoId /\ \E p \in PricedPids, q \in Quantities : handleAddItem(p, q)
    \/ \E i \in 1..MaxItems : handleRemoveItem(i)
    \/ handleSaveAsPending
    \/ \E d \in DraftIds : handleEditPendingSale(d)
    \/ cancelEdit
    \/ handleSaveTransaction("none")
    \/ /\ currentSaleItems = <<>> /\ pendingSales = <<>> /\ sales = <<>>
       /\ \E p \in PricedPids : handleEditProduct(p)
    \/ \E v \in PriceFieldInputs : handlePriceChange(v)
    \/ handleSaveEdit

SpecTotals == Init /\ [][NextTotals]_vars

\* A row of the product table edited in its three fields and saved, by the
\* handleSaveEdit of either copy of ProductManagement.
NextEdit ==
    \/ \E p \in PricedPids : handleEditProduct(p)
    \/ \E v \in PriceFieldInputs : handlePriceChange(v)
    \/ \E v \in NameInputs : handleNameChange(v)
    \/ \E v \in StockFieldInputs : handleStockChange(v)
    \/ handleSaveEdit
    \/ handleSaveEditPriceOnly
    \/ Tick

SpecEdit == Init /\ [][NextEdit]_vars

\* A draft loaded into the cart, changed there and saved again or given up.
NextEditing ==
    \/ \E p \in PricedPids, q \in Quantities : handleAddItem(p, q)
    \/ \E i \in 1..MaxItems : handleRemoveItem(i)
    \/ handleSaveAsPending
    \/ \E d \in DraftIds : handleEditPendingSale(d)
    \/ cancelEdit
    \/ Tick

SpecEditing == Init /\ [][NextEditing]_vars

\* Sales made with a file chosen, so that every save awaits a file write and a
\* second sale can start before the first has ended.
NextOverlap ==
    \/ fileHandle = NoId /\ handleExportData("file", FALSE)
    \/ inflight = <<>> /\ \E p \in Pids : handleAddItem(p, 1)
    \/ inflight = <<>> /\ handleSaveAsPending
    \/ beginSale("commit", NoId)
    \/ \E d \in DraftIds : beginSale("completePending", d)
    \/ \E i \in 1..MaxInflight : resumeInSaveProducts(i)
    \/ \E i \in 1..MaxInflight : resumeInSaveSales(i)

SpecOverlap == Init /\ [][NextOverlap]_vars

\* The cart filled through the form, with any text in the quantity field, and
\* sold directly or by way of a draft.
NextQuantity ==
    \/ \E p \in Pids, text \in QuantityTexts : submitAddItem(p, text)
    \/ \E i \in 1..MaxItems : handleRemoveItem(i)
    \/ handleSaveAsPending
    \/ handleSaveTransaction("none")
    \/ \E d \in DraftIds : handleCompletePendingSale(d, "none")

SpecQuantity == Init /\ [][NextQuantity]_vars

\* Price and stock updates of any product, with any id and any value handed in.
NextCatalog ==
    \/ \E p \in Pids \cup UnknownPids, v \in Prices : handleUpdatePrice(p, v)
    \/ \E p \in Pids \cup UnknownPids, v \in StockInputs : handleUpdateStock(p, v)
    \/ Tick

SpecCatalog == Init /\ [][NextCatalog]_vars

\* Reports filters a sales log for the selected period.
InitWindow == InitStore /\ priceQuery = NoQuery /\ report \in WindowReports

NextWindow == showFilteredSales

SpecWindow == InitWindow /\ [][NextWindow]_vars

\* Reports groups the sales of today by product.
InitGroups == InitStore /\ priceQuery = NoQuery /\ report \in DailyReports

NextGroups == showDailyReport

SpecGroups == InitGroups /\ [][NextGroups]_vars

\* Reports looks up the price of one sale of a product with any price history.
InitPriceAt == InitStore /\ priceQuery \in PriceQueries /\ report = NoReport

NextPriceAt == lookupHistoricalPrice

SpecPriceAt == InitPriceAt /\ [][NextPriceAt]_vars

\* ------------------------------------------------------------- properties
CartExceedsStock ==
    \E i \in 1..Len(currentSaleItems) :
        currentSaleItems[i].quantity > products[currentSaleItems[i].productId].stock

StoresUnchanged ==
    /\ dataProducts' = dataProducts /\ dataSales' = dataSales
    /\ products' = products /\ sales' = sales
    /\ stored' = stored

\* C1: after any sequence of addLineItem, saveDraft, commit, completeDraft and
\* completeAllDrafts, every product's stock is >= 0 in the in-memory store and in
\* the persisted store.
C1_StockNeverNegative ==
    \A p \in Pids : dataProducts[p].stock >= 0 /\ stored.products[p].stock >= 0

\* C2: a commit with a line item whose quantity exceeds the product's stock is
\* rejected: no Sale record is appended, no stock changes, nothing is persisted.
C2_CommitAllOrNothing ==
    [][(lastOp'.op = "commit" /\ CartExceedsStock) => StoresUnchanged]_vars

\* C3: across any sequence of draft operations, the line items of one draft are
\* turned into Sale records, and decrement stock, at most once.
C3_DraftConvertedAtMostOnce ==
    \A d \in DraftIds : convertedCount[d] <= 1

\* C4: completeAllDrafts rejects the whole batch when the quantity summed per
\* product over all pending drafts exceeds the product's stock: stock, sales log
\* and drafts stay as they were.
C4_CompleteAllRejectsOversell ==
    [][(/\ lastOp'.op = "completeAll"
        /\ \E p \in Pids : SumQuantity(Flatten(pendingSales), p) > products[p].stock)
       => (StoresUnchanged /\ pendingSales' = pendingSales)]_vars

\* C5: when completeAllDrafts succeeds, each product's stock is reduced by exactly
\* the sum of that product's quantities over all line items of all pending drafts,
\* one Sale record per line item is appended with the item's productId and
\* quantity, and the set of pending drafts becomes empty; the in-memory store and
\* the persisted store hold that result.
C5_CompleteAllEffect ==
    [][(lastOp'.op = "completeAll" /\ lastOp'.ok) =>
        LET items == Flatten(pendingSales)
        IN /\ \A p \in Pids :
                /\ products'[p].stock = products[p].stock - SumQuantity(items, p)
                /\ products'[p].name = products[p].name
                /\ products'[p].price = products[p].price
           /\ dataProducts' = products'
           /\ stored'.products = Snapshot(products', priceHistory)
           /\ Len(sales') = Len(sales) + Len(items)
           /\ SubSeq(sales', 1, Len(sales)) = sales
           /\ \A i \in 1..Len(items) :
                /\ sales'[Len(sales) + i].productId = items[i].productId
                /\ sales'[Len(sales) + i].quantity = items[i].quantity
           /\ dataSales' = sales'
           /\ stored'.sales = sales'
           /\ pendingSales' = <<>>]_vars

\* a batch of two drafts that hold the same product was completed
C5_Witness ==
    /\ lastOp = Op("completeAll", TRUE, 2)
    /\ \E p \in Pids :
        /\ \E i, j \in 1..Len(sales) :
              i < j /\ sales[i].productId = p /\ sales[j].productId = p
        /\ products[p].stock = InitStock - SumQuantity(sales, p)
        /\ products[p].stock < InitStock - 2

\* C6: completeAllPendingDrafts never persists a partial batch: the persisted
\* store never holds decremented stock without the Sale records that account for
\* it, also when the second save fails.
C6_NoPartialBatchPersisted ==
    \A p \in Pids :
        stored.products[p].stock = InitStock - SumQuantity(stored.sales, p)

\* C7: a successful commit of a cart appends one Sale record per line item and
\* reduces each product's stock by the sum of the quantities of all line items
\* for that product, also when a product appears in several line items.
C7_CommitReducesBySum ==
    [][(lastOp'.op = "commit" /\ lastOp'.ok) =>
        /\ Len(sales') = Len(sales) + Len(currentSaleItems)
        /\ \A p \in Pids :
             products'[p].stock = products[p].stock - SumQuantity(currentSaleItems, p)]_vars

\* C8: the length of a product's priceHistory grows by one on an updatePrice whose
\* new price differs from the current price, and not at all on an updatePrice
\* with the current price.
C8_HistoryCountsChanges ==
    [][\A p \in Pids :
        lastOp' = Op("updatePrice", TRUE, p) =>
            Len(priceHistory'[p]) = Len(priceHistory[p])
                + (IF dataProducts'[p].price # dataProducts[p].price THEN 1 ELSE 0)]_vars

\* C9: the price history is an append-only ledger of superseded prices: an
\* updatePrice that changes the price appends one entry holding the price in
\* effect before the change and the current time, and sets the price; no
\* operation (price update, product edit, stock update, commit) changes, removes
\* or reorders an entry, in memory or in the persisted store.
C9_HistoryAppendOnly ==
    [][\A p \in Pids :
        /\ IsPrefix(priceHistory[p], priceHistory'[p])
        /\ IsPrefix(stored.products[p].priceHistory, stored'.products[p].priceHistory)
        /\ priceHistory'[p] # priceHistory[p] =>
              /\ lastOp'.op \in {"updatePrice", "saveEdit"}
              /\ lastOp'.arg = p
              /\ priceHistory'[p] =
                    Append(priceHistory[p], [price |-> dataProducts[p].price, date |-> now])
        /\ dataProducts'[p].price # dataProducts[p].price =>
              /\ Len(priceHistory'[p]) = Len(priceHistory[p]) + 1
              /\ stored'.products[p].price = dataProducts'[p].price
              /\ stored'.products[p].priceHistory = priceHistory'[p]]_vars

\* two price changes were recorded and a later stock update, edit or commit ran
C9_Witness ==
    /\ lastOp.op \in {"commit", "updateStock", "saveEdit"}
    /\ \E p \in Pids :
        /\ Len(priceHistory[p]) = 2
        /\ priceHistory[p][1].price # priceHistory[p][2].price
        /\ priceHistory[p][2].price # dataProducts[p].price
        /\ stored.products[p].priceHistory = priceHistory[p]

\* the price set by the latest change made at or before T; the entry of change
\* i holds the price it superseded, so change i set the price that entry i + 1
\* holds, and the last change set the current price
PriceInEffect(price, history, T) ==
    LET made == {i \in 1..Len(history) : history[i].date <= T}
        last == CHOOSE i \in made : \A j \in made : j <= i
    IN IF Len(history) = 0 THEN price
       ELSE IF made = {} THEN history[1].price
       ELSE IF last = Len(history) THEN price
       ELSE history[last + 1].price

\* C10: priceAt(product, T) is the price that was in effect at T: the current
\* price for T at or after the latest change, and the price set by the earlier
\* change for T between two recorded changes.
C10_PriceAtIsPriceInEffect ==
    \A p \in Pids : \A T \in 0..MaxTime :
        (Len(priceHistory[p]) > 0 /\ T >= priceHistory[p][1].date) =>
            getHistoricalPrice(products[p].price, priceHistory[p], T)
                = PriceInEffect(products[p].price, priceHistory[p], T)

\* C11: priceAt never fails: with an empty price history it returns the product's
\* current price; when T is earlier than every history entry it returns the price
\* of an entry with the oldest timestamp; otherwise it returns the price of an
\* entry with the greatest timestamp that is <= T, whatever order the entries are
\* stored in.
C11_PriceAtPolicy ==
    priceQuery.asked =>
        LET h == priceQuery.history
            T == priceQuery.at
            r == priceQuery.result
            idx == 1..Len(h)
            upTo == {i \in idx : h[i].date <= T}
        IN /\ r \in Prices
           /\ h = <<>> => r = priceQuery.price
           /\ (h # <<>> /\ upTo = {}) =>
                 \E i \in idx : /\ \A j \in idx : h[i].date <= h[j].date
                                /\ r = h[i].price
           /\ upTo # {} =>
                 \E i \in upTo : /\ \A j \in upTo : h[j].date <= h[i].date
                                 /\ r = h[i].price

\* a history stored out of date order was looked up for a date between its entries
C11_Witness ==
    /\ priceQuery.asked
    /\ Len(priceQuery.history) = 3
    /\ priceQuery.history[1].date = 0
    /\ priceQuery.history[2].date = 2
    /\ priceQuery.history[3].date = 1
    /\ priceQuery.at = 1
    /\ priceQuery.history[1].price # priceQuery.history[3].price
    /\ priceQuery.result = priceQuery.history[3].price

\* C12: updateStock with newStock < 0 fails with InvalidArgument and leaves the
\* product's stock and the persisted store unchanged; with newStock >= 0 it sets
\* the stock to exactly newStock and changes no other field or product.
C12_UpdateStockContract ==
    [][\A p \in Pids :
        (lastOp'.op = "updateStock" /\ lastOp'.arg = p) =>
            IF lastOp'.value < 0
            THEN /\ ~lastOp'.ok
                 /\ dataProducts'[p].stock = dataProducts[p].stock
                 /\ stored' = stored
            ELSE /\ dataProducts'[p].stock = lastOp'.value
                 /\ dataProducts'[p].name = dataProducts[p].name
                 /\ dataProducts'[p].price = dataProducts[p].price
                 /\ \A q \in Pids \ {p} : dataProducts'[q] = dataProducts[q]
                 /\ priceHistory' = priceHistory]_vars

\* C13: updatePrice and updateStock called with a product id that is not in the
\* catalog fail with a NotFound outcome visible to the caller, and leave the
\* catalog, every price history and the persisted store unchanged.
C13_UnknownIdRejected ==
    [][(lastOp'.op \in {"updatePrice", "updateStock"} /\ lastOp'.arg \notin Pids) =>
        /\ ~lastOp'.ok
        /\ dataProducts' = dataProducts
        /\ priceHistory' = priceHistory
        /\ stored' = stored]_vars

\* the items that the step turns into sales
ItemsSold ==
    IF lastOp'.op = "commit" THEN currentSaleItems
    ELSE IF lastOp'.op = "completePending"
         THEN FindPending(pendingSales, lastOp'.arg).items
         ELSE Flatten(pendingSales)

C16_DraftOpsFrame ==
    [][/\ lastOp'.op \in {"saveAsPending", "deletePending"} =>
            /\ dataProducts' = dataProducts /\ dataSales' = dataSales
            /\ products' = products /\ sales' = sales
            /\ stored' = stored
       /\ lastOp'.op = "deletePending" =>
            /\ Len(pendingSales') = Len(pendingSales) - 1
            /\ lastOp'.arg \notin PendingIds(pendingSales')
            /\ \A i \in 1..Len(pendingSales) :
                  pendingSales[i].id # lastOp'.arg =>
                      \E j \in 1..Len(pendingSales') : pendingSales'[j] = pendingSales[i]
       /\ (lastOp'.op = "saveAsPending" /\ lastOp'.arg \in PendingIds(pendingSales)
                                        /\ currentSaleItems # <<>>) =>
            /\ Len(pendingSales') = Len(pendingSales)
            /\ \A i \in 1..Len(pendingSales) :
                  IF pendingSales[i].id = lastOp'.arg
                  THEN /\ pendingSales'[i].id = pendingSales[i].id
                       /\ pendingSales'[i].createdAt = pendingSales[i].createdAt
                       /\ pendingSales'[i].lastUpdated = now
                       /\ pendingSales'[i].items = currentSaleItems
                  ELSE pendingSales'[i] = pendingSales[i]
       /\ (lastOp'.op = "saveAsPending" /\ lastOp'.arg = NoId
                                        /\ currentSaleItems # <<>>) =>
            /\ Len(pendingSales') = Len(pendingSales) + 1
            /\ SubSeq(pendingSales', 1, Len(pendingSales)) = pendingSales
            /\ pendingSales'[Len(pendingSales')].id \notin PendingIds(pendingSales)
            /\ pendingSales'[Len(pendingSales')].items = currentSaleItems
            /\ pendingSales'[Len(pendingSales')].createdAt = now
            /\ pendingSales'[Len(pendingSales')].lastUpdated = now]_vars

\* a draft made before a sale was saved again later, next to another draft
C16_Witness ==
    /\ lastOp.op = "saveAsPending"
    /\ lastOp.arg # NoId
    /\ sales # <<>>
    /\ Len(pendingSales) = 2
    /\ \E i \in 1..2 : /\ pendingSales[i].id = lastOp.arg
                        /\ pendingSales[i].createdAt = 0
                        /\ pendingSales[i].lastUpdated = 1

\* C15: completeDraft(d) has the same effect on product stock and on the sales
\* log as loading d's items into an empty cart and calling commit, and in
\* addition removes d (and only d) from the pending drafts when it succeeds; this
\* holds for every draft, including one whose items list contains the same
\* product more than once.
C15_CompleteDraftIsCommit ==
    [][(lastOp'.op = "completePending" /\ lastOp'.ok) =>
        LET items == FindPending(pendingSales, lastOp'.arg).items
        IN /\ products' = StockAfterCart(products, items)
           /\ dataProducts' = StockAfterCart(products, items)
           /\ sales' = sales \o NewSales(items, products, now)
           /\ dataSales' = sales'
           /\ pendingSales' = WithoutPending(pendingSales, lastOp'.arg)]_vars

\* C17: committing an empty cart, saving an empty cart as a draft, and
\* completeAllDrafts with no pending drafts are no-ops: no error is raised, and
\* products, sales, pending drafts and the persisted store are all unchanged.
C17_EmptyNoOps ==
    [][(\/ lastOp'.op \in {"commit", "saveAsPending"} /\ currentSaleItems = <<>>
        \/ lastOp'.op = "completeAll" /\ pendingSales = <<>>) =>
            /\ lastOp'.ok
            /\ dataProducts' = dataProducts /\ dataSales' = dataSales
            /\ products' = products /\ sales' = sales
            /\ priceHistory' = priceHistory
            /\ stored' = stored
            /\ pendingSales' = pendingSales
            /\ nextPendingId' = nextPendingId
            /\ editingSaleId' = editingSaleId]_vars

\* after a sale, a draft was loaded into the cart, its items were removed and
\* the empty cart was committed: the draft is still there
C17_Witness ==
    /\ sales # <<>>
    /\ currentSaleItems = <<>>
    /\ lastOp.op = "commit"
    /\ editingSaleId # NoId
    /\ editingSaleId \in PendingIds(pendingSales)

C19_ExportImportRoundTrip ==
    [][/\ lastOp'.op = "exportData" =>
            /\ dataProducts' = dataProducts
            /\ priceHistory' = priceHistory
            /\ dataSales' = dataSales
       /\ (/\ lastOp.op = "exportData" /\ lastOp.failure = "none"
           /\ lastOp'.op = "importData" /\ lastOp'.pick = "same") =>
            /\ dataProducts' = dataProducts
            /\ priceHistory' = priceHistory
            /\ dataSales' = dataSales
            /\ \A p \in Pids :
                  /\ stored'.products[p].name = dataProducts'[p].name
                  /\ stored'.products[p].price = dataProducts'[p].price
                  /\ stored'.products[p].stock = dataProducts'[p].stock
                  /\ stored'.products[p].priceHistory = priceHistory'[p]
            /\ stored'.sales = dataSales']_vars

\* C20: a failure during import or export (file selection cancelled, unreadable
\* or unparsable file, failed write) is surfaced to the caller of importData or
\* exportData as an error, and a failed import leaves the in-memory store
\* unchanged.
C20_IoFailureSurfaced ==
    [][(lastOp'.op \in {"importData", "exportData"} /\ lastOp'.failure # "none") =>
            /\ ~lastOp'.ok
            /\ lastOp'.op = "importData" =>
                  /\ dataProducts' = dataProducts
                  /\ priceHistory' = priceHistory
                  /\ dataSales' = dataSales]_vars

\* the handlers that end in saveProducts or saveSales
RoutineSaves == {"commit", "completePending", "completeAll", "updatePrice",
                 "updateStock", "saveEdit"}

\* C21: when the durable file write fails during a routine save (saveProducts or
\* saveSales with a file handle set), the whole current store is still written
\* to local storage, no error reaches the caller, and the in-memory operation
\* completes as successful.
C21_FileWriteFallback ==
    [][(lastOp'.op \in RoutineSaves /\ fileHandle # NoId /\ writeDenied) =>
        /\ lastOp'.ok
        /\ stored' = [products |-> Snapshot(dataProducts', priceHistory'),
                      sales |-> dataSales']
        /\ products' = dataProducts'
        /\ sales' = dataSales'
        /\ file' = file
        /\ (lastOp'.op = "commit" /\ currentSaleItems # <<>>) =>
              /\ Len(sales') = Len(sales) + Len(currentSaleItems)
              /\ currentSaleItems' = <<>>
        /\ lastOp'.op = "updateStock" => dataProducts'[lastOp'.arg].stock = lastOp'.value
        /\ lastOp'.op = "updatePrice" =>
              Len(priceHistory'[lastOp'.arg]) = Len(priceHistory[lastOp'.arg]) + 1]_vars

\* a sale was committed while the chosen file could not be written: localStorage
\* holds the sale, the file still holds the store as exported
C21_Witness ==
    /\ lastOp.op = "commit"
    /\ lastOp.ok
    /\ fileHandle # NoId
    /\ writeDenied
    /\ file # <<>>
    /\ stored.sales # <<>>
    /\ file[1].sales = <<>>
    /\ stored.sales = sales

\* C22: every line item in a cart or a draft has an integer quantity >= 1:
\* addLineItem with a quantity below 1 (or not a number) is rejected as
\* InvalidArgument and adds nothing to the cart, so no commit can raise a
\* product's stock.
C22_QuantityAtLeastOne ==
    [][/\ \A i \in 1..Len(currentSaleItems') : currentSaleItems'[i].quantity >= 1
       /\ \A i \in 1..Len(Flatten(pendingSales')) : Flatten(pendingSales')[i].quantity >= 1
       /\ lastOp'.op = "addItemBlocked" =>
              /\ ~lastOp'.ok
              /\ currentSaleItems' = currentSaleItems
              /\ totalAmount' = totalAmount
       /\ lastOp'.op \in {"commit", "completePending"} =>
              \A p \in Pids : products'[p].stock <= products[p].stock]_vars

\* C23: filterByWindow keeps exactly the sales whose date is >= the start of the
\* current calendar day for 'daily', >= the start of the current day minus 7 days
\* for 'weekly', and all sales for 'general'; the lower bound is inclusive and
\* there is no upper bound (with now on the 15th the weekly window includes the
\* first instant of the 8th and excludes the last instant of the 7th).
C23_FilterByWindow ==
    report.asked =>
        LET ss == report.sales
            startOfToday == (report.now \div DayLength) * DayLength
            bound == IF report.period = "daily" THEN startOfToday
                     ELSE startOfToday - 7 * DayLength
            kept == {i \in 1..Len(ss) : report.period = "general" \/ ss[i].date >= bound}
            nth(k) == CHOOSE i \in kept : Cardinality({j \in kept : j <= i}) = k
        IN /\ Len(report.filtered) = Cardinality(kept)
           /\ \A k \in 1..Len(report.filtered) : report.filtered[k] = ss[nth(k)]

\* the weekly report shown late on day 8 of a sale made in the last instant of
\* day 0 and a sale made in the first instant of day 1: only the second is kept
C23_Witness ==
    /\ report.asked
    /\ report.period = "weekly"
    /\ report.now = 8 * DayLength + 1
    /\ report.sales = <<WindowSale(DayLength - 1), WindowSale(DayLength)>>
    /\ report.filtered = <<WindowSale(DayLength)>>

RECURSIVE SumOf(_, _)
\* the sum of the numbers f[i] for the i of a finite set
SumOf(f, idx) ==
    IF idx = {} THEN 0
    ELSE LET i == CHOOSE j \in idx : TRUE IN Plus(f[i], SumOf(f, idx \ {i}))

\* C24: groupDaily returns exactly one group per distinct productName among the
\* filtered sales; each group's quantity and total are the sums over that
\* product's sales, its unit price is that of the first sale of that product in
\* log order, its titles are the distinct non-empty titles of those sales, and the
\* groups are ordered by product name; the group totals add up to totalForWindow
\* of the same sales.
C24_GroupDaily ==
    report.asked =>
        LET fs == report.filtered
            g == report.groups
            names == {fs[i].productName : i \in 1..Len(fs)}
            of(n) == {i \in 1..Len(fs) : fs[i].productName = n}
            first(n) == CHOOSE i \in of(n) : \A j \in of(n) : i <= j
        IN /\ Len(g) = Cardinality(names)
           /\ {g[k].name : k \in 1..Len(g)} = names
           /\ \A k \in 1..Len(g) :
                 LET n == g[k].name
                 IN /\ g[k].quantity = SumOf([i \in 1..Len(fs) |-> fs[i].quantity], of(n))
                    /\ g[k].total = SumOf([i \in 1..Len(fs) |-> fs[i].total], of(n))
                    /\ g[k].unitPrice = fs[first(n)].unitPrice
                    /\ {g[k].titles[j] : j \in 1..Len(g[k].titles)}
                          = {fs[i].title : i \in of(n)} \ {""}
                    /\ Len(g[k].titles)
                          = Cardinality({g[k].titles[j] : j \in 1..Len(g[k].titles)})
           /\ \A k, l \in 1..Len(g) : k < l => NameRank(g[k].name) < NameRank(g[l].name)
           /\ SumOf([k \in 1..Len(g) |-> g[k].total], 1..Len(g))
                 = calculateTotalSales(fs)
           /\ report.total = calculateTotalSales(fs)

RECURSIVE SumTotal(_)
\* the sum of the line totals of a list of items
SumTotal(items) ==
    IF items = <<>> THEN 0 ELSE Plus(Head(items).total, SumTotal(Tail(items)))

\* C26: after any sequence of addLineItem, removeLineItem, loading a draft for
\* editing, cancelling an edit, saving as draft and commit, the cart's running
\* total equals the sum of the line totals of the items currently in the cart,
\* and each stored draft's total equals the sum of its items' line totals.
C26_TotalsAreSums ==
    /\ totalAmount = SumTotal(currentSaleItems)
    /\ \A i \in 1..Len(pendingSales) :
          pendingSales[i].total = SumTotal(pendingSales[i].items)

\* C27: if a second commit (or completeDraft / completeAllDrafts) starts while an
\* earlier one is suspended in a persistence call, then after both finish the
\* sales log contains the Sale records of both operations and each product's
\* stock is reduced by the quantities of both; no operation's records or
\* decrements are lost.
C27_NoLostSale ==
    [][Len(inflight') < Len(inflight) =>
        /\ IsPrefix(sales, sales')
        /\ \A p \in Pids : products'[p].stock <= products[p].stock
        /\ inflight' = <<>> =>
              /\ dataSales' = sales'
              /\ dataProducts' = products'
              /\ stored'.sales = sales']_vars

\* C28: updateDraft for a draft id that is no longer among the pending drafts
\* (the draft was discarded or completed while loaded for editing) is
\* rejected as NotFound and does not discard the cart's line items: the items
\* are either still in the cart or stored in a pending draft afterwards.
C28_VanishedDraftRejected ==
    [][(/\ lastOp'.op = "saveAsPending"
        /\ currentSaleItems # <<>>
        /\ editingSaleId # NoId
        /\ editingSaleId \notin PendingIds(pendingSales))
       => /\ lastOp'.ok = FALSE
          /\ \/ currentSaleItems' = currentSaleItems
             \/ \E i \in 1..Len(pendingSales') :
                    pendingSales'[i].items = currentSaleItems]_vars

\* C29: loading a draft into the cart for editing and then adding or removing
\* line items does not change the stored draft until updateDraft is called;
\* cancelling the edit leaves the stored draft (items, total, title,
\* createdAt, lastUpdated) identical to what it was before editing and
\* empties the cart.  Stated on every step taken while a draft is loaded,
\* other than the save of the draft.
C29_EditingLeavesDraft ==
    [][(editingSaleId # NoId /\ lastOp'.op # "saveAsPending")
       => /\ pendingSales' = pendingSales
          /\ lastOp'.op = "cancelEdit" =>
                /\ currentSaleItems' = <<>>
                /\ totalAmount' = 0
                /\ editingSaleId' = NoId]_vars

\* a draft is loaded and an item was added to the cart, which now differs from
\* the stored draft
C29_Witness ==
    /\ editingSaleId \in PendingIds(pendingSales)
    /\ lastOp.op = "addItem"
    /\ currentSaleItems # FindPending(pendingSales, editingSaleId).items

\* C30: saving a product edit that changes the price together with the name
\* and/or the stock applies every changed field to the stored product,
\* appends exactly one price-history entry holding the old price, and keeps
\* the product's id and earlier history entries; the in-memory store, the
\* UI's product list and the persisted store agree afterwards.
C30_SaveEditAppliesAll ==
    [][(/\ lastOp'.op = "saveEdit"
        /\ editingProduct.id # NoId
        /\ editingProduct.price # products[editingProduct.id].price
        /\ \/ Trim(editingProduct.name) # products[editingProduct.id].name
           \/ editingProduct.stock # products[editingProduct.id].stock)
       => LET id == editingProduct.id
          IN /\ products'[id] = [name |-> Trim(editingProduct.name),
                                  price |-> editingProduct.price,
                                  stock |-> editingProduct.stock]
             /\ priceHistory'[id] =
                    Append(priceHistory[id], [price |-> products[id].price, date |-> now])
             /\ \A p \in Pids \ {id} :
                    products'[p] = products[p] /\ priceHistory'[p] = priceHistory[p]
             /\ dataProducts' = products'
             /\ \A p \in Pids :
                    /\ stored'.products[p].name = products'[p].name
                    /\ stored'.products[p].price = products'[p].price
                    /\ stored'.products[p].stock = products'[p].stock
                    /\ stored'.products[p].priceHistory = priceHistory'[p]]_vars

====
